---- MODULE Spec2Model ----
(***************************************************************************)
(* Model of the two scripts of the repository: main.py (session, create a  *)
(* job, run it, poll the run, delete the job) and delete_all_jobs.py       *)
(* (session, list the jobs, delete each).  One process run of one script   *)
(* is one behaviour; the remote server's answers are the inputs.           *)
(***************************************************************************)
EXTENDS Integers, Sequences, FiniteSets, TLC

VARIABLES
    script,        \* which script runs: "main" or "delete_all"
    pc,            \* position of the process in the script
    now,           \* wall clock, in seconds (datetime.now() / time.time())
    file,          \* chainlink_token.json: <<>> when absent, else <<record>>
    file0,         \* the file as it was when the process started
    cookie_name,   \* main()'s local cookie_name
    token,         \* main()'s local token
    calls,         \* requests issued so far, by kind, and writes of the file
    loginResp,     \* the response the login request got (<<>> before it)
    job_id,        \* main.py main()'s local job_id
    exc,           \* the exception in flight, NoExc when none
    STATUS_local,  \* main.py: the parameter STATUS of main()
    STATUS_global, \* main.py: the module-level STATUS
    exitCode,      \* the process exit code, -1 while it runs
    start_time,    \* poll_run_status: start_time
    lastPoll,      \* poll_run_status: what the last loop iteration saw
    pollResult,    \* poll_run_status: its return value, Running before
    job_ids,       \* delete_all_jobs.py: the ids list_job_ids returned
    listResp,      \* delete_all_jobs.py: outcome of the listing request
    delDone,       \* the delete requests made so far: job id and answer
    deleted_count, \* delete_all_jobs.py main(): deleted_count
    failed_count   \* delete_all_jobs.py main(): failed_count

vars == <<script, pc, now, file, file0, cookie_name, token, calls, loginResp,
          job_id, exc, STATUS_local, STATUS_global, exitCode, start_time,
          lastPoll, pollResult, job_ids, listResp, delDone, deleted_count,
          failed_count>>

----------------------------------------------------------------------------
(* Bounds of the model *)

\* longest time, in seconds, a run-listing request of the poller may take
MaxReqTime == 1
\* longest job listing the server returns to delete_all_jobs.py
MaxJobs == 3
\* the clock reading, in seconds, when the process starts
T0 == 0

(* Program constants *)

\* poll_run_status(..., timeout=60)
Timeout == 60
\* time.sleep(2)
SleepSecs == 2
\* timedelta(hours=1), in seconds
Hour == 3600

----------------------------------------------------------------------------
(* Python values *)

NoneVal == "None"          \* Python's None, JSON null
Unbound == "<unbound>"     \* a local name that was never assigned
NoExc   == "no exception"
Running == "running"       \* poll_run_status has not returned

\* truth value of a str-or-None
Truthy(s) == s \notin {NoneVal, ""}

\* str.lower() on the status strings the server sends
Lower(s) ==
    CASE s = "Completed" -> "completed"
      [] s = "COMPLETED" -> "completed"
      [] s = "Errored"   -> "errored"
      [] OTHER           -> s

\* dict.get(key, default)
Get(d, key, default) == IF key \in DOMAIN d THEN d[key] ELSE default

\* any(e is not None for e in xs)
AnyNotNone(xs) == \E i \in 1..Len(xs) : xs[i] # NoneVal
\* all(e is not None for e in xs)
AllNotNone(xs) == \A i \in 1..Len(xs) : xs[i] # NoneVal
\* all(e is None for e in xs)
AllNone(xs) == \A i \in 1..Len(xs) : xs[i] = NoneVal

----------------------------------------------------------------------------
(* The credential file *)

\* get_saved_token() with the expiry comparison turned around
get_saved_token_reversed(f, t) ==
    IF f # <<>>
       /\ Truthy(f[1].token) /\ Truthy(f[1].cookie_name)
       /\ t > f[1].expires
    THEN <<f[1].cookie_name, f[1].token>>
    ELSE <<NoneVal, NoneVal>>

\* get_saved_token(): the pair it returns for the file f at time t
get_saved_token(f, t) ==
    IF f # <<>>
       /\ Truthy(f[1].token) /\ Truthy(f[1].cookie_name)
       /\ t < f[1].expires
    THEN <<f[1].cookie_name, f[1].token>>
    ELSE <<NoneVal, NoneVal>>

\* save_token() with the name and the value of the cookie exchanged
save_token_swapped(cn, tk, expiration) ==
    << [cookie_name |-> tk, token |-> cn, expires |-> expiration] >>

\* save_token(): the file after it; open(TOKEN_FILE, "w") truncates
save_token(cn, tk, expiration) ==
    << [cookie_name |-> cn, token |-> tk, expires |-> expiration] >>

\* login(): expiration of the first cookie c, decided at time t
Expiration(c, t) == IF c.expires # 0 THEN c.expires ELSE t + Hour

\* login() of main.py succeeds on status 200 only; login() of
\* delete_all_jobs.py on whatever raise_for_status() lets through
LoginStatusOk(s, status) ==
    IF s = "main" THEN status = 200 ELSE status < 400

\* whether login() returns (rather than raises) on response r
LoginOk(s, r) ==
    /\ r.kind = "http"
    /\ LoginStatusOk(s, r.status)
    /\ Len(r.cookies) > 0

\* main(): "if not token or not cookie_name: sys.exit(1)"
AuthOk(cn, tk) == Truthy(tk) /\ Truthy(cn)

----------------------------------------------------------------------------
(* What the environment can hand the process *)

\* session cookies as the server sets them: a name and a non-empty value
SessionCookie == [name |-> "clsession", value |-> "tokB", expires |-> 0]
DatedCookie   ==
    [name |-> "clsession", value |-> "tokC", expires |-> T0 + 2 * Hour]
OtherCookie   == [name |-> "other", value |-> "x", expires |-> 0]

\* the credential file a process may find: absent, or a record an earlier
\* run saved, expired, expiring this very second, or still valid
Files0 ==
    {<<>>}
    \cup {save_token("clsession", "tokA", e) : e \in {T0 - 1, T0, T0 + 1}}

NetErr == [kind |-> "neterr", status |-> 0, cookies |-> <<>>]

\* answers to POST /sessions
LoginResponses ==
    {NetErr}
    \cup {[kind |-> "http", status |-> 401, cookies |-> <<>>],
          [kind |-> "http", status |-> 200, cookies |-> <<>>],
          [kind |-> "http", status |-> 201, cookies |-> <<SessionCookie>>],
          [kind |-> "http", status |-> 200, cookies |-> <<SessionCookie>>],
          [kind |-> "http", status |-> 200,
           cookies |-> <<DatedCookie, OtherCookie>>]}

NoCalls == [probe |-> 0, login |-> 0, create |-> 0, run |-> 0,
            delete |-> 0, list |-> 0, write |-> 0]

NoPoll == [kind |-> "none"]

----------------------------------------------------------------------------
(* Start of a process run *)

Init ==
    /\ script \in {"main", "delete_all"}
    /\ pc = IF script = "main" THEN "probe" ELSE "get_token"
    /\ now = T0
    /\ file \in Files0
    /\ file0 = file
    /\ cookie_name = Unbound
    /\ token = Unbound
    /\ calls = NoCalls
    /\ loginResp = <<>>
    /\ job_id = Unbound
    /\ exc = NoExc
    /\ STATUS_local = FALSE
    /\ STATUS_global = FALSE
    /\ exitCode = -1
    /\ start_time = 0
    /\ lastPoll = NoPoll
    /\ pollResult = Running
    /\ job_ids = <<>>
    /\ listResp = "none"
    /\ delDone = <<>>
    /\ deleted_count = 0
    /\ failed_count = 0

jobVars  == <<job_id, exc, STATUS_local, STATUS_global>>
pollVars == <<start_time, lastPoll, pollResult>>
listVars == <<job_ids, listResp, deleted_count, failed_count>>
delVars  == <<listVars, delDone>>

\* the step after the session step
AfterAuth == IF script = "main" THEN "create" ELSE "list"

----------------------------------------------------------------------------
(* Session step, the same in both scripts *)

\* main.py main(): the connectivity check; whatever requests.get or
\* raise_for_status raises is a RequestException, swallowed by "pass"
Probe ==
    /\ pc = "probe"
    /\ calls' = [calls EXCEPT !.probe = @ + 1]
    /\ pc' = "get_token"
    /\ UNCHANGED <<script, now, file, file0, cookie_name, token, loginResp,
                   exitCode>>
    /\ UNCHANGED <<jobVars, pollVars, delVars>>

\* cookie_name, token = get_saved_token(); "if token:" skips the login
GetSavedToken ==
    /\ pc = "get_token"
    /\ LET p == get_saved_token(file, now) IN
        /\ cookie_name' = p[1]
        /\ token' = p[2]
        /\ IF ~Truthy(p[2])
           THEN pc' = "login" /\ exitCode' = exitCode
           ELSE IF AuthOk(p[1], p[2])
           THEN pc' = AfterAuth /\ exitCode' = exitCode
           ELSE pc' = "exited" /\ exitCode' = 1
    /\ UNCHANGED <<script, now, file, file0, calls, loginResp>>
    /\ UNCHANGED <<jobVars, pollVars, delVars>>

\* cookie_name, token = login(), inside try/except Exception: sys.exit(1)
Login ==
    /\ pc = "login"
    /\ \E r \in LoginResponses :
        /\ loginResp' = <<r>>
        /\ IF LoginOk(script, r)
           THEN LET c == r.cookies[1] IN
                /\ file' = save_token(c.name, c.value, Expiration(c, now))
                /\ calls' = [calls EXCEPT !.login = @ + 1, !.write = @ + 1]
                /\ cookie_name' = c.name
                /\ token' = c.value
                /\ IF AuthOk(c.name, c.value)
                   THEN pc' = AfterAuth /\ exitCode' = exitCode
                   ELSE pc' = "exited" /\ exitCode' = 1
           ELSE /\ file' = file
                /\ calls' = [calls EXCEPT !.login = @ + 1]
                /\ UNCHANGED <<cookie_name, token>>
                /\ pc' = "exited"
                /\ exitCode' = 1
    /\ UNCHANGED <<script, now, file0>>
    /\ UNCHANGED <<jobVars, pollVars, delVars>>

----------------------------------------------------------------------------
(* main.py: classification of a run, poll_run_status lines 98-124 *)

\* str(x) of an id: ids are kept as their type and their text
Str(x) == x.text
IntId(t) == [type |-> "int", text |-> t]
StrId(t) == [type |-> "str", text |-> t]

\* next((r for r in runs if str(r.get("id")) == str(job_run_id)), None):
\* <<the first match>>, or <<>> for None
FindRun(runs, job_run_id) ==
    LET hits == {i \in 1..Len(runs) : Str(runs[i].id) = Str(job_run_id)} IN
    IF hits = {} THEN <<>>
    ELSE <<runs[CHOOSE i \in hits : \A j \in hits : i <= j]>>

\* the outputs test with any entry in errors, null or not, counted as an error
OutputsGood_errors_empty(outputs, errors) ==
    /\ outputs # <<>>
    /\ AllNotNone(outputs)
    /\ errors = <<>>

\* "outputs and all(o is not None ...) and (not errors or all(e is None ...))"
OutputsGood(outputs, errors) ==
    /\ outputs # <<>>
    /\ AllNotNone(outputs)
    /\ (errors = <<>> \/ AllNone(errors))

\* the chain with the status looked at before the fatal errors
ClassifyRun_status_first(attributes) ==
    LET status       == Get(attributes, "status", "")
        fatal_errors == Get(attributes, "fatalErrors", <<>>)
        finished_at  == Get(attributes, "finishedAt", NoneVal)
        outputs      == Get(attributes, "outputs", <<>>)
        errors       == Get(attributes, "errors", <<>>)
    IN  IF Truthy(status) /\ Lower(status) = "completed" THEN "completed"
        ELSE IF Truthy(status) /\ Lower(status) = "errored" THEN "errored"
        ELSE IF fatal_errors # <<>> /\ AnyNotNone(fatal_errors) THEN "errored"
        ELSE IF Truthy(status) THEN "pending"
        ELSE IF Truthy(finished_at)
        THEN IF OutputsGood(outputs, errors) THEN "completed" ELSE "errored"
        ELSE "pending"

\* the if/elif chain on the attributes of the run that was found:
\* "completed", "errored", or "pending" when the loop goes on
ClassifyRun(attributes) ==
    LET status       == Get(attributes, "status", "")
        fatal_errors == Get(attributes, "fatalErrors", <<>>)
        finished_at  == Get(attributes, "finishedAt", NoneVal)
        outputs      == Get(attributes, "outputs", <<>>)
        errors       == Get(attributes, "errors", <<>>)
    IN  IF fatal_errors # <<>> /\ AnyNotNone(fatal_errors) THEN "errored"
        ELSE IF Truthy(status)
        THEN IF Lower(status) = "completed" THEN "completed"
             ELSE IF Lower(status) = "errored" THEN "errored"
             ELSE "pending"
        ELSE IF Truthy(finished_at)
        THEN IF OutputsGood(outputs, errors) THEN "completed" ELSE "errored"
        ELSE "pending"

\* one listing: the classification of job_run_id in it ("if run: ... else:
\* not found"), run.get("attributes", {})
ClassifyListing(runs, job_run_id) ==
    LET run == FindRun(runs, job_run_id) IN
    IF run = <<>> THEN "pending"
    ELSE ClassifyRun(Get(run[1], "attributes", <<>>))

\* the timeout test with >= for >
TimedOut_inclusive(t, start, timeout) == t - start >= timeout

\* "if time.time() - start_time > timeout"
TimedOut(t, start, timeout) == t - start > timeout

\* what one iteration of the while loop does on an HTTP response, at time t:
\* "return <value>" or "sleep"
PollStep(status, runs, job_run_id, t, start) ==
    IF status # 200 THEN [do |-> "return", value |-> NoneVal]
    ELSE LET c == ClassifyListing(runs, job_run_id) IN
         IF c # "pending" THEN [do |-> "return", value |-> c]
         ELSE IF TimedOut(t, start, Timeout)
         THEN [do |-> "return", value |-> NoneVal]
         ELSE [do |-> "sleep", value |-> NoneVal]

\* run_job(): what it returns for the status poll_run_status returned
RunJobResult(status) == status = "completed"

----------------------------------------------------------------------------
(* What the server can answer about runs *)

\* each option is <<>> (key absent) or <<value>>
StatusOpts   == {<<>>, <<"completed">>, <<"Errored">>, <<"in_progress">>}
FatalOpts    == {<<>>, << <<NoneVal>> >>, << <<NoneVal, "x">> >>}
FinishedOpts == {<<>>, <<"2024-01-01T00:00:00Z">>}
OutputsOpts  == {<<>>, << <<"1", "2">> >>, << <<"1", NoneVal>> >>}
ErrorsOpts   == {<<>>, << <<NoneVal>> >>, << <<"e">> >>}

MkAttrs(s, f, t, o, e) ==
    LET opt == [status |-> s, fatalErrors |-> f, finishedAt |-> t,
                outputs |-> o, errors |-> e]
        keys == {k \in DOMAIN opt : opt[k] # <<>>}
    IN  [k \in keys |-> opt[k][1]]

\* the same keys present but empty or null: status "", fatalErrors [],
\* finishedAt null, outputs [], errors []
EmptyAttrs ==
    {MkAttrs(<<"">>, << <<>> >>, t, o, << <<>> >>) :
        t \in FinishedOpts \cup {<<NoneVal>>},
        o \in OutputsOpts \cup {<< <<>> >>}}

AttrsSet ==
    {MkAttrs(s, f, t, o, e) : s \in StatusOpts, f \in FatalOpts,
                              t \in FinishedOpts, o \in OutputsOpts,
                              e \in ErrorsOpts}
    \cup EmptyAttrs

\* the id POST /v2/jobs/{id}/runs returned, and the same run in a listing
TheRunId == StrId("7")
TheRun(a) == [id |-> IntId("7"), attributes |-> a]
\* another run of the same job, long finished
OtherRun == [id |-> IntId("6"), attributes |-> [status |-> "completed"]]

Listings ==
    {<<>>, <<OtherRun>>, << [id |-> IntId("7")] >>}
    \cup {<<TheRun(a)>> : a \in AttrsSet}
    \cup {<<OtherRun, TheRun(a)>> : a \in EmptyAttrs}

\* answers to GET /v2/jobs/{id}/runs
PollResponses ==
    {[kind |-> "neterr", status |-> 0, runs |-> <<>>],
     [kind |-> "http", status |-> 500, runs |-> <<>>],
     [kind |-> "http", status |-> 404, runs |-> <<>>]}
    \cup {[kind |-> "http", status |-> 200, runs |-> l] : l \in Listings}

----------------------------------------------------------------------------
(* main.py: create, run, poll, and the finally block *)

\* reading config.toml, then answers to POST /v2/jobs; data_id is
\* response.json()["data"].get("id"), NoneVal when there is none
ConfigReads == {"ok", "FileNotFoundError", "PermissionError"}
CreateResponses ==
    {[kind |-> "neterr", status |-> 0, data_id |-> NoneVal],
     [kind |-> "http", status |-> 500, data_id |-> NoneVal],
     [kind |-> "http", status |-> 200, data_id |-> NoneVal],
     [kind |-> "http", status |-> 200, data_id |-> "job1"],
     [kind |-> "http", status |-> 201, data_id |-> "job1"]}

\* create_job(): the id it returns, NoneVal for None (also when it falls off
\* its end), given that the request did not raise
create_job(r) ==
    IF r.status \in {200, 201} /\ Truthy(r.data_id) THEN r.data_id
    ELSE NoneVal

\* answers to POST /v2/jobs/{id}/runs; run_id is the "id" of "data"
RunResponses ==
    {[kind |-> "neterr", status |-> 0, run_id |-> <<>>],
     [kind |-> "http", status |-> 500, run_id |-> <<>>],
     [kind |-> "http", status |-> 200, run_id |-> <<>>],
     [kind |-> "http", status |-> 200, run_id |-> <<TheRunId>>],
     [kind |-> "http", status |-> 201, run_id |-> <<TheRunId>>]}

\* run_job() goes on to poll: status in [200, 201] and a run id came back
RunStarted(r) == r.status \in {200, 201} /\ r.run_id # <<>>

\* answers to DELETE /v2/jobs/{id}; 404 is "no such job"
DeleteResponses ==
    {[kind |-> "neterr", status |-> 0],
     [kind |-> "http", status |-> 200],
     [kind |-> "http", status |-> 204],
     [kind |-> "http", status |-> 404],
     [kind |-> "http", status |-> 500]}

\* job_id = create_job(cookie_name, token), first statement of the try
CreateJob ==
    /\ pc = "create"
    /\ \E cfg \in ConfigReads, r \in CreateResponses :
        IF cfg # "ok"
        THEN \* both except clauses return None; no request was made
             /\ job_id' = NoneVal
             /\ STATUS_local' = TRUE
             /\ pc' = "finally"
             /\ UNCHANGED <<calls, exc>>
        ELSE /\ calls' = [calls EXCEPT !.create = @ + 1]
             /\ IF r.kind = "neterr"
                THEN \* requests.post raises; job_id is never assigned
                     /\ exc' = "ConnectionError"
                     /\ pc' = "finally"
                     /\ UNCHANGED <<job_id, STATUS_local>>
                ELSE /\ job_id' = create_job(r)
                     /\ exc' = exc
                     /\ IF job_id' # NoneVal
                        THEN pc' = "run" /\ STATUS_local' = STATUS_local
                        ELSE pc' = "finally" /\ STATUS_local' = TRUE
    /\ UNCHANGED <<script, now, file, file0, cookie_name, token, loginResp,
                   STATUS_global, exitCode>>
    /\ UNCHANGED <<pollVars, delVars>>

\* STATUS = run_job(...), up to the call of poll_run_status
RunJob ==
    /\ pc = "run"
    /\ \E r \in RunResponses :
        /\ calls' = [calls EXCEPT !.run = @ + 1]
        /\ IF r.kind = "neterr"
           THEN /\ exc' = "ConnectionError"
                /\ pc' = "finally"
                /\ UNCHANGED <<STATUS_local, start_time>>
           ELSE IF RunStarted(r)
           THEN /\ pc' = "poll"
                /\ start_time' = now
                /\ UNCHANGED <<STATUS_local, exc>>
           ELSE /\ pc' = "finally"
                /\ STATUS_local' = FALSE
                /\ UNCHANGED <<exc, start_time>>
    /\ UNCHANGED <<script, now, file, file0, cookie_name, token, loginResp,
                   job_id, STATUS_global, exitCode, lastPoll, pollResult>>
    /\ UNCHANGED delVars

\* one iteration of poll_run_status's loop, up to its return or its sleep;
\* on return, run_job returns and main() assigns STATUS
PollIteration ==
    /\ pc = "poll"
    /\ \E r \in PollResponses, d \in 0..MaxReqTime :
        /\ now' = now + d
        /\ lastPoll' = r
        /\ IF r.kind = "neterr"
           THEN /\ exc' = "ConnectionError"
                /\ pc' = "finally"
                /\ UNCHANGED <<pollResult, STATUS_local>>
           ELSE LET step == PollStep(r.status, r.runs, TheRunId, now',
                                     start_time) IN
                /\ exc' = exc
                /\ IF step.do = "return"
                   THEN /\ pollResult' = step.value
                        /\ STATUS_local' = RunJobResult(step.value)
                        /\ pc' = "finally"
                   ELSE /\ pc' = "poll_sleep"
                        /\ UNCHANGED <<pollResult, STATUS_local>>
    /\ UNCHANGED <<script, file, file0, cookie_name, token, calls, loginResp,
                   job_id, STATUS_global, exitCode, start_time>>
    /\ UNCHANGED delVars

\* time.sleep(2), and the loop starts over: the iteration's response and
\* run go out of use
PollSleep ==
    /\ pc = "poll_sleep"
    /\ now' = now + SleepSecs
    /\ lastPoll' = NoPoll
    /\ pc' = "poll"
    /\ UNCHANGED <<script, file, file0, cookie_name, token, calls, loginResp,
                   exitCode, start_time, pollResult>>
    /\ UNCHANGED <<jobVars, delVars>>

\* main.py delete_job(): it ignores the response; does it raise on r?
MainDeleteRaises(r) == r.kind = "neterr"

\* finally: "if job_id is not None: delete_job(...)", job_id bound.  An
\* exception in flight goes on after the block; with none, main() returns
FinallyBound ==
    /\ pc = "finally"
    /\ job_id # Unbound
    /\ IF job_id # NoneVal
       THEN \E r \in DeleteResponses :
            /\ calls' = [calls EXCEPT !.delete = @ + 1]
            /\ delDone' = Append(delDone, [id |-> job_id, resp |-> r])
            /\ exc' = IF MainDeleteRaises(r) THEN "ConnectionError" ELSE exc
       ELSE UNCHANGED <<calls, delDone, exc>>
    /\ IF exc' # NoExc
       THEN pc' = "exited" /\ exitCode' = 1
       ELSE pc' = "tail" /\ exitCode' = exitCode
    /\ UNCHANGED <<script, now, file, file0, cookie_name, token, loginResp,
                   job_id, STATUS_local, STATUS_global>>
    /\ UNCHANGED <<pollVars, listVars>>

\* finally, entered because create_job raised: reading job_id raises
\* UnboundLocalError, which ends the process with a traceback
FinallyUnbound ==
    /\ pc = "finally"
    /\ job_id = Unbound
    /\ exc' = "UnboundLocalError"
    /\ pc' = "exited"
    /\ exitCode' = 1
    /\ UNCHANGED <<script, now, file, file0, cookie_name, token, calls,
                   loginResp, job_id, STATUS_local, STATUS_global>>
    /\ UNCHANGED <<pollVars, delVars>>

\* the exit code the __main__ block picks from the module-level STATUS
MainExitCode(status) == IF status THEN 0 ELSE 1

\* __main__: main(STATUS) has returned; "if STATUS: exit(0) else: exit(1)"
ScriptTail ==
    /\ pc = "tail"
    /\ pc' = "exited"
    /\ exitCode' = MainExitCode(STATUS_global)
    /\ UNCHANGED <<script, now, file, file0, cookie_name, token, calls,
                   loginResp>>
    /\ UNCHANGED <<jobVars, pollVars, delVars>>

----------------------------------------------------------------------------
(* delete_all_jobs.py: list, then delete each *)

JobIdOpts == {"a", "b", NoneVal}

RECURSIVE SeqsUpTo(_, _)
\* all sequences over S of length at most n
SeqsUpTo(S, n) ==
    IF n = 0 THEN {<<>>}
    ELSE LET shorter == SeqsUpTo(S, n - 1) IN
         shorter \cup {Append(q, x) : q \in shorter, x \in S}

\* answers to GET /v2/jobs: data holds the "id" of each job, NoneVal for a
\* job without one; kind "badjson" is a 200 whose body is not JSON
ListResponses ==
    {[kind |-> "neterr", status |-> 0, data |-> <<>>],
     [kind |-> "http", status |-> 500, data |-> <<>>],
     [kind |-> "badjson", status |-> 200, data |-> <<>>]}
    \cup {[kind |-> "http", status |-> 200, data |-> d] :
            d \in SeqsUpTo(JobIdOpts, MaxJobs)}

\* whether the listing request worked: no exception inside list_job_ids
ListOk(r) == r.kind = "http" /\ r.status < 400

RECURSIVE TruthyIds(_)
\* [job.get("id") for job in jobs_data if job.get("id")]
TruthyIds(data) ==
    IF data = <<>> THEN <<>>
    ELSE IF Truthy(Head(data)) THEN <<Head(data)>> \o TruthyIds(Tail(data))
    ELSE TruthyIds(Tail(data))

\* list_job_ids(): the list it returns; [] from each except clause
list_job_ids(r) == IF ListOk(r) THEN TruthyIds(r.data) ELSE <<>>

\* delete_job() taking "no such job" for a deletion
delete_job_404_deleted(r) == r.kind = "http" /\ r.status \in {200, 204, 404}

\* delete_job() of delete_all_jobs.py: True on 200/204, False on any other
\* status and on a RequestException
delete_job(r) == r.kind = "http" /\ r.status \in {200, 204}

\* sys.exit after the loop: 1 if any deletion failed
DeleteAllExitCode(failed) == IF failed > 0 THEN 1 ELSE 0

\* job_ids = list_job_ids(...); "if not job_ids: sys.exit(0)"
ListJobs ==
    /\ pc = "list"
    /\ \E r \in ListResponses :
        /\ listResp' = IF ListOk(r) THEN "ok" ELSE "failed"
        /\ job_ids' = list_job_ids(r)
        /\ calls' = [calls EXCEPT !.list = @ + 1]
        /\ IF job_ids' = <<>>
           THEN pc' = "exited" /\ exitCode' = 0
           ELSE pc' = "del_loop" /\ exitCode' = exitCode
    /\ UNCHANGED <<script, now, file, file0, cookie_name, token, loginResp,
                   delDone, deleted_count, failed_count>>
    /\ UNCHANGED <<jobVars, pollVars>>

\* one pass of "for job_id in job_ids"
DeleteOne ==
    /\ pc = "del_loop"
    /\ Len(delDone) < Len(job_ids)
    /\ \E r \in DeleteResponses :
        /\ delDone' = Append(delDone, [id |-> job_ids[Len(delDone) + 1],
                                       resp |-> r])
        /\ calls' = [calls EXCEPT !.delete = @ + 1]
        /\ IF delete_job(r)
           THEN deleted_count' = deleted_count + 1
                /\ failed_count' = failed_count
           ELSE failed_count' = failed_count + 1
                /\ deleted_count' = deleted_count
    /\ UNCHANGED <<script, pc, now, file, file0, cookie_name, token,
                   loginResp, exitCode, job_ids, listResp>>
    /\ UNCHANGED <<jobVars, pollVars>>

\* the loop is over: sys.exit(1) if failed_count > 0 else sys.exit(0)
DeleteFinish ==
    /\ pc = "del_loop"
    /\ Len(delDone) = Len(job_ids)
    /\ pc' = "exited"
    /\ exitCode' = DeleteAllExitCode(failed_count)
    /\ UNCHANGED <<script, now, file, file0, cookie_name, token, calls,
                   loginResp>>
    /\ UNCHANGED <<jobVars, pollVars, delVars>>

----------------------------------------------------------------------------
(* The process *)

Next ==
    \/ Probe
    \/ GetSavedToken
    \/ Login
    \/ CreateJob
    \/ RunJob
    \/ PollIteration
    \/ PollSleep
    \/ FinallyBound
    \/ FinallyUnbound
    \/ ScriptTail
    \/ ListJobs
    \/ DeleteOne
    \/ DeleteFinish

Spec == Init /\ [][Next]_vars

----------------------------------------------------------------------------
(* Vocabulary of the properties *)

Exited == pc = "exited"
\* the process is past the session step
PastSession == pc \notin {"probe", "get_token", "login"}
\* the record found at start is usable: present and expiring after T0
RecordValid == file0 # <<>> /\ file0[1].expires > T0
\* create_job returned an id
JobCreated == job_id \notin {Unbound, NoneVal}
PollReturned == pollResult # Running
Elapsed == now - start_time

\* the last run-listing query failed: a network error, or a non-200 answer
QueryRaised == lastPoll.kind = "neterr"
QueryNon200 == lastPoll.kind = "http" /\ lastPoll.status # 200
\* the last query worked and listed the run
RunListed ==
    /\ lastPoll.kind = "http"
    /\ lastPoll.status = 200
    /\ \E i \in 1..Len(lastPoll.runs) : lastPoll.runs[i].id.text = "7"
\* the attributes of the run in the last listing ({} when it has none)
SeenAttrs ==
    LET l == lastPoll.runs
        r == l[CHOOSE i \in 1..Len(l) : l[i].id.text = "7"]
    IN  IF "attributes" \in DOMAIN r THEN r.attributes ELSE <<>>
\* the last query produced a terminal classification
SawTerminal == RunListed /\ pollResult \in {"completed", "errored"}

Field(a, k, default) == IF k \in DOMAIN a THEN a[k] ELSE default
SeenFatal == \E i \in 1..Len(Field(SeenAttrs, "fatalErrors", <<>>)) :
                Field(SeenAttrs, "fatalErrors", <<>>)[i] # NoneVal
SeenStatus == Field(SeenAttrs, "status", "")
SeenStatusEmpty == SeenStatus \in {"", NoneVal}
SeenFinished == Field(SeenAttrs, "finishedAt", NoneVal) # NoneVal
SeenOutputsValid ==
    LET o == Field(SeenAttrs, "outputs", <<>>)
        e == Field(SeenAttrs, "errors", <<>>)
    IN  /\ Len(o) > 0
        /\ \A i \in 1..Len(o) : o[i] # NoneVal
        /\ \A i \in 1..Len(e) : e[i] = NoneVal

----------------------------------------------------------------------------
(* Properties *)

\* C1: main.py exits with code 0 exactly when the created job's run was
\* classified as completed (and nothing was raised afterwards); every
\* failure gives a nonzero code.
C1_ExitZeroIffRunCompleted ==
    (script = "main" /\ Exited) =>
        (exitCode = 0 <=> (pollResult = "completed" /\ exc = NoExc))

\* C2, as claimed: poll_run_status returns None exactly when the elapsed
\* time exceeds the timeout with no terminal classification.
C2_NoneIffTimeout ==
    PollReturned =>
        (pollResult = NoneVal <=> (Elapsed > Timeout /\ ~SawTerminal))

\* C2, amended: poll_run_status returns None exactly when the listing query
\* answered with a non-200 status, or a poll without terminal classification
\* ended with the elapsed time above the timeout; and it goes to sleep only
\* while the elapsed time is within the timeout.
C2_NoneIffTimeoutOrNon200 ==
    /\ PollReturned =>
        (pollResult = NoneVal <=>
            (QueryNon200 \/ (~SawTerminal /\ Elapsed > Timeout)))
    /\ pc = "poll_sleep" => Elapsed <= Timeout

\* C2 witness: the poller gave up on the timeout after a listing that worked
C2_TimedOutReached ==
    /\ pollResult = NoneVal
    /\ lastPoll.kind = "http" /\ lastPoll.status = 200
    /\ Elapsed > Timeout

\* C3: with a record present whose expiry is later than the current time,
\* the session step returns the stored pair, sends no login request, and
\* leaves the credential file as it was.
C3_CacheHit ==
    (RecordValid /\ pc # "probe" /\ pc # "get_token") =>
        /\ cookie_name = file0[1].cookie_name
        /\ token = file0[1].token
        /\ calls.login = 0
        /\ loginResp = <<>>
        /\ calls.write = 0
        /\ file = file0
        /\ pc # "login"

\* C3 witness: main.py went on to create the job with the stored pair
C3_HitReached ==
    /\ RecordValid
    /\ script = "main" /\ pc = "create"
    /\ token = "tokA" /\ calls.login = 0

\* C4: with the record absent or expired, login is attempted exactly once;
\* if it succeeds the file holds exactly the first cookie's name, value and
\* expiry (the cookie's own, else start + one hour), written once; if it
\* fails the file is not written; the file never holds more than one record.
C4_LoginOnceAndPersisted ==
    /\ Len(file) <= 1 /\ calls.write <= 1 /\ calls.login <= 1
    /\ (~RecordValid /\ PastSession) =>
        /\ calls.login = 1
        /\ Len(loginResp) = 1
        /\ IF token \notin {NoneVal, Unbound}
           THEN LET c == loginResp[1].cookies[1] IN
                /\ calls.write = 1
                /\ token = c.value /\ cookie_name = c.name
                /\ file = << [cookie_name |-> c.name, token |-> c.value,
                              expires |-> IF c.expires # 0 THEN c.expires
                                          ELSE T0 + Hour] >>
           ELSE calls.write = 0 /\ file = file0 /\ Exited /\ exitCode = 1

\* C4 witness: an expired record was replaced after a successful login
C4_ReloginReached ==
    /\ file0 # <<>> /\ ~RecordValid
    /\ PastSession /\ ~Exited
    /\ calls.login = 1 /\ calls.write = 1 /\ file # file0

\* C5: a listed run with a non-null fatalErrors entry is classified errored
\* on that poll whatever its other fields say; a fatalErrors list that is
\* absent, empty or all-null never makes a run errored by itself: such a run
\* is errored only through its status or through the finishedAt rule.
C5_FatalErrorsDecide ==
    RunListed =>
        /\ SeenFatal => (pollResult = "errored" /\ pc # "poll_sleep")
        /\ (~SeenFatal /\ pollResult = "errored") =>
            \/ SeenStatus \in {"errored", "Errored"}
            \/ (SeenStatusEmpty /\ SeenFinished /\ ~SeenOutputsValid)

\* C5 witness: status "completed", finished, valid outputs, and still
\* errored because of a fatal error
C5_FatalBeatsCompleted ==
    /\ RunListed /\ SeenFatal
    /\ SeenStatus = "completed" /\ SeenFinished /\ SeenOutputsValid
    /\ pollResult = "errored"

\* C6: a listed run without fatal error, with empty status and a finishedAt,
\* is completed iff its outputs are non-empty and all non-null and its
\* errors are empty or all null, and errored otherwise; the poller never
\* sleeps on it.  With a non-empty status the rule is not applied: a status
\* other than completed/errored never yields a classification.
C6_FinishedAtRule ==
    (RunListed /\ ~SeenFatal) =>
        /\ (SeenStatusEmpty /\ SeenFinished) =>
            /\ pc # "poll_sleep"
            /\ pollResult =
                 IF SeenOutputsValid THEN "completed" ELSE "errored"
        /\ (~SeenStatusEmpty
            /\ SeenStatus \notin {"completed", "errored", "Errored"}) =>
            /\ pollResult \in {Running, NoneVal}
            /\ pollResult = NoneVal => Elapsed > Timeout

\* C6 witness: empty status, finished, valid outputs, all-null errors
C6_CompletedByOutputs ==
    /\ RunListed /\ ~SeenFatal /\ SeenStatusEmpty /\ SeenFinished
    /\ SeenOutputsValid
    /\ Field(SeenAttrs, "errors", <<>>) # <<>>
    /\ pollResult = "completed"

\* C7: when the run-listing query fails, by a non-200 answer or by a network
\* error, poll_run_status returns None at once and nothing is raised.
C7_FailedQueryReturnsNone ==
    (pc = "finally" /\ (QueryNon200 \/ QueryRaised)) =>
        (pollResult = NoneVal /\ exc = NoExc)

\* C8: a delete answered 404 raises nothing in either script; in
\* delete_all_jobs.py it counts as a failure, the loop goes on, and at the
\* end every listed id was attempted once, in order, with
\* deleted_count + failed_count = number of listed ids.
C8_DeleteMissingJobIsHarmless ==
    /\ [](script = "delete_all" =>
            /\ exc = NoExc
            /\ deleted_count + failed_count = Len(delDone)
            /\ calls.delete = Len(delDone)
            /\ Len(delDone) <= Len(job_ids)
            /\ \A i \in 1..Len(delDone) :
                /\ delDone[i].id = job_ids[i]
                /\ delDone[i].resp.status = 404 => failed_count >= 1
            /\ (Exited /\ job_ids # <<>>) =>
                /\ Len(delDone) = Len(job_ids)
                /\ deleted_count + failed_count = Len(job_ids))
    /\ [][(script = "main" /\ Len(delDone') = 1 /\ Len(delDone) = 0
            /\ delDone'[1].resp.status = 404) =>
                (exc' = exc /\ (exc = NoExc => pc' = "tail"))]_vars

\* C8 witness: delete_all_jobs.py finished after a 404 on the first id and
\* a successful delete of the second
C8_MissingThenDeleted ==
    /\ script = "delete_all" /\ Exited
    /\ Len(delDone) >= 2
    /\ delDone[1].resp.status = 404
    /\ delDone[2].resp.status = 204
    /\ deleted_count >= 1

\* C9: delete_all_jobs.py exits 0 only if authentication succeeded, the
\* listing request succeeded and every listed job was deleted.
C9_ExitZeroOnlyOnFullSuccess ==
    (script = "delete_all" /\ Exited /\ exitCode = 0) =>
        /\ Truthy(token) /\ token # Unbound
        /\ listResp = "ok"
        /\ failed_count = 0
        /\ deleted_count = Len(job_ids)

\* C10: in main.py a created job gets exactly one delete request before the
\* process ends; with no job created there is no delete request and the
\* cleanup step raises nothing.
C10_CreatedJobDeletedOnce ==
    (script = "main" /\ Exited) =>
        /\ JobCreated => calls.delete = 1
        /\ ~JobCreated => (calls.delete = 0 /\ exc # "UnboundLocalError")

====
